---- MODULE Spec2Model ----
(***************************************************************************)
(* A model of the pk2 archive library: the entry codec, the block chains,  *)
(* the block manager (index parsing and path resolution) and the archive   *)
(* facade (create, open, create_file, delete_file).                         *)
(*                                                                         *)
(* Offsets are the real byte offsets of the format (header 256 bytes,      *)
(* block 2560 bytes, entry 128 bytes).  Timestamps are left out: no        *)
(* operation reads them.  An Option<NonZeroU64> is its number, 0 for None. *)
(***************************************************************************)
EXTENDS Integers, Sequences, FiniteSets, TLC

\* ------------------------------------------------------------ constants

PK2_ROOT_BLOCK == 256

PK2_FILE_ENTRY_SIZE == 128

PK2_FILE_BLOCK_ENTRY_COUNT == 20

PK2_FILE_BLOCK_SIZE == PK2_FILE_BLOCK_ENTRY_COUNT * PK2_FILE_ENTRY_SIZE

\* The name field of an entry on disk.
NAME_FIELD_SIZE == 81

\* ------------------------------------------------------------ bounds

\* Files /f01, /f02, ... created in this order at the root fill its blocks.
MaxFill == 21

\* Operations on the other paths (create_file, delete_file, re-open).
MaxOps == 2

\* Blocks the index parser may load for one chain before the model stops it.
MaxLoaded == 5

\* create_file calls on nested paths, in SpecNested.
MaxNested == 4

\* ------------------------------------------------------------ names

FillNames ==
    << "f01", "f02", "f03", "f04", "f05", "f06", "f07", "f08", "f09", "f10",
       "f11", "f12", "f13", "f14", "f15", "f16", "f17", "f18", "f19", "f20",
       "f21", "f22", "f23", "f24", "f25", "f26", "f27", "f28", "f29", "f30" >>

\* A name of 82 bytes and its first 81 bytes.
LongName == "n82"

LongNameCut == "n81"

\* The number of bytes of a name in EUC-KR (the names here are ASCII).
EncodedLen(name) ==
    IF name = LongName THEN 82
    ELSE IF name = LongNameCut THEN 81
    ELSE IF name = ".." THEN 2
    ELSE IF name \in {".", "a", "b", "d", "e", "g", "h"} THEN 1
    ELSE 3

\* EUC_KR.encode(name) followed by resize(81, 0): the name field, a longer
\* encoding cut to its first 81 bytes.
EncodeName(name) ==
    [euc_kr |-> IF EncodedLen(name) > NAME_FIELD_SIZE THEN LongNameCut
                ELSE name]

\* The bytes of the name field up to the first NUL, decoded.
DecodeName(field) == field.euc_kr

\* ------------------------------------------------------------ entries

NoName == "<none>"

new_empty(next_block) ==
    [kind |-> "Empty", name |-> "", pos |-> 0, size |-> 0,
     next_block |-> next_block]

new_directory(name, pos_children, next_block) ==
    [kind |-> "Directory", name |-> name, pos |-> pos_children, size |-> 0,
     next_block |-> next_block]

new_file(name, pos_data, size, next_block) ==
    [kind |-> "File", name |-> name, pos |-> pos_data, size |-> size,
     next_block |-> next_block]

\* clear dropping the next_block of the entry.
clear_drop_link(e) == new_empty(0)

clear(e) == new_empty(e.next_block)

set_next_block(e, nc) ==
    IF e.kind = "Empty" THEN e ELSE [e EXCEPT !.next_block = nc]

entry_name(e) == IF e.kind = "Empty" THEN NoName ELSE e.name

is_empty(e) == e.kind = "Empty"

is_file(e) == e.kind = "File"

is_dir(e) == e.kind = "Directory"

\* ------------------------------------------------------------ codec
\* The 128 bytes of an entry, as the fields the codec reads and writes:
\* ty = byte 0, name = bytes 1..82, pos = bytes 106..114, size = bytes
\* 114..118, and the last ten bytes as b118 = bytes 118..120 (u16),
\* b120 = bytes 120..126 (u48), b126 = bytes 126..128 (u16).  Offsets stay
\* below 2^31 here, so the high parts of a u64 are 0.

to_writer(e) ==
    IF e.kind = "Empty"
    THEN [ty |-> 0, name |-> EncodeName(""), pos |-> 0, size |-> 0,
          b118 |-> 0, b120 |-> e.next_block, b126 |-> 0]
    ELSE [ty |-> IF is_dir(e) THEN 1 ELSE 2,
          name |-> EncodeName(e.name),
          pos |-> e.pos,
          size |-> IF e.kind = "File" THEN e.size ELSE 0,
          b118 |-> e.next_block % 65536,
          b120 |-> e.next_block \div 65536,
          b126 |-> 0]

CorruptedEntry == [kind |-> "Corrupted"]

from_reader(r) ==
    IF r.ty = 0 THEN new_empty(0)
    ELSE IF r.ty = 1
    THEN new_directory(DecodeName(r.name), r.pos, r.b118 + 65536 * r.b120)
    ELSE IF r.ty = 2
    THEN new_file(DecodeName(r.name), r.pos, r.size, r.b118 + 65536 * r.b120)
    ELSE CorruptedEntry

\* ------------------------------------------------------------ blocks

EntryIdx == 1..PK2_FILE_BLOCK_ENTRY_COUNT

\* PackBlock::new(offset): twenty Empty entries.
PackBlock_new(offset) ==
    [offset |-> offset, entries |-> [i \in EntryIdx |-> new_empty(0)]]

\* A chain is a sequence of blocks; entry indices are 0-based as in the code.
chain_index(chain) == chain[1].offset

num_entries(chain) == Len(chain) * PK2_FILE_BLOCK_ENTRY_COUNT

get(chain, i) ==
    chain[(i \div PK2_FILE_BLOCK_ENTRY_COUNT) + 1]
        .entries[(i % PK2_FILE_BLOCK_ENTRY_COUNT) + 1]

set_entry(chain, i, e) ==
    [chain EXCEPT ![(i \div PK2_FILE_BLOCK_ENTRY_COUNT) + 1]
                      .entries[(i % PK2_FILE_BLOCK_ENTRY_COUNT) + 1] = e]

file_offset_for_entry(chain, i) ==
    chain[(i \div PK2_FILE_BLOCK_ENTRY_COUNT) + 1].offset
        + (i % PK2_FILE_BLOCK_ENTRY_COUNT) * PK2_FILE_ENTRY_SIZE

SetMin(S) == CHOOSE x \in S : \A y \in S : x <= y

SetMax(S) == CHOOSE x \in S : \A y \in S : y <= x

\* empty_pos taking the last Empty entry.
empty_pos_last(chain) ==
    LET S == {i \in 0..(num_entries(chain) - 1) : is_empty(get(chain, i))}
    IN  IF S = {} THEN -1 ELSE SetMax(S)

\* entries().position(PackEntry::is_empty): the first index, or -1.
empty_pos(chain) ==
    LET S == {i \in 0..(num_entries(chain) - 1) : is_empty(get(chain, i))}
    IN  IF S = {} THEN -1 ELSE SetMin(S)

\* entries().find(|e| e.name() == name), as an index or -1.
find_name(chain, name) ==
    LET S == {i \in 0..(num_entries(chain) - 1) :
                 entry_name(get(chain, i)) = name}
    IN  IF S = {} THEN -1 ELSE SetMin(S)

\* What find_block_chain_index_of makes of the entry found at index i.
children_position_at(chain, i) ==
    IF i = -1 THEN [res |-> "NotFound", chain |-> 0]
    ELSE IF is_dir(get(chain, i))
    THEN [res |-> "Ok", chain |-> get(chain, i).pos]
    ELSE [res |-> "ExpectedDirectory", chain |-> 0]

find_block_chain_index_of(chain, name) ==
    children_position_at(chain, find_name(chain, name))

\* ------------------------------------------------------------ host file
\* The host file: its length, the index blocks written into it (by offset,
\* each the twenty encoded entries) and the payloads (by offset).

next_block_of(e) == e.next_block

\* crate::io::file_len
file_len(disk) == disk.len

\* One write to the host file: what is written (a block, an entry, a
\* payload) and where.
Write(op, offset, val) == [op |-> op, offset |-> offset, val |-> val]

\* The host file d2 a write w turned disk into.  A host file that carries a
\* journal (a field log) also records the write, in the order of the calls.
journal(disk, w, d2) ==
    IF "log" \in DOMAIN disk THEN [d2 EXCEPT !.log = Append(disk.log, w)]
    ELSE d2

\* crate::io::write_block: the block's 2560 bytes at the block's offset.
write_block(disk, block) ==
    journal(disk, Write("block", block.offset, block),
        [disk EXCEPT
            !.blocks = [o \in DOMAIN disk.blocks \cup {block.offset} |->
                           IF o = block.offset
                           THEN [i \in EntryIdx |->
                                    to_writer(block.entries[i])]
                           ELSE disk.blocks[o]],
            !.len = IF block.offset + PK2_FILE_BLOCK_SIZE > disk.len
                    THEN block.offset + PK2_FILE_BLOCK_SIZE
                    ELSE disk.len])

\* The block of the host file that holds the byte at offset.
BlockAt(disk, offset) ==
    CHOOSE o \in DOMAIN disk.blocks :
        o <= offset /\ offset < o + PK2_FILE_BLOCK_SIZE

\* crate::io::write_entry_at: the entry's 128 bytes at offset.
write_entry_at(disk, offset, e) ==
    journal(disk, Write("entry", offset, e),
        [disk EXCEPT
            !.blocks[BlockAt(disk, offset)]
                    [((offset - BlockAt(disk, offset))
                          \div PK2_FILE_ENTRY_SIZE) + 1]
                = to_writer(e)])

\* Appends a payload at the end of the host file.
append_data(disk, bytes) ==
    journal(disk, Write("data", disk.len, bytes),
        [disk EXCEPT
            !.data = [p \in DOMAIN disk.data \cup {disk.len} |->
                         IF p = disk.len THEN bytes ELSE disk.data[p]],
            !.len = disk.len + Len(bytes)])

\* The host file with an empty journal.
Journal(disk) ==
    [len |-> disk.len, header |-> disk.header, blocks |-> disk.blocks,
     data |-> disk.data, log |-> << >>]

\* The write w done on the host file.
apply_write(disk, w) ==
    IF w.op = "block" THEN write_block(disk, w.val)
    ELSE IF w.op = "entry" THEN write_entry_at(disk, w.offset, w.val)
    ELSE append_data(disk, w.val)

\* A positioned read of size bytes at pos.
read_data(disk, pos, size) ==
    IF size = 0 THEN << >>
    ELSE IF pos \in DOMAIN disk.data /\ Len(disk.data[pos]) >= size
    THEN SubSeq(disk.data[pos], 1, size)
    ELSE << -1 >>

\* The block read at offset, from its decoded entries.
decoded_block(offset, es) ==
    IF \E i \in EntryIdx : es[i] = CorruptedEntry
    THEN [res |-> "CorruptedFile", block |-> << >>]
    ELSE [res |-> "Ok", block |-> [offset |-> offset, entries |-> es]]

\* read_block_at: the block decoded, or the error.
read_block_at(disk, offset) ==
    IF offset \notin DOMAIN disk.blocks
    THEN [res |-> "Io", block |-> << >>]
    ELSE decoded_block(
             offset, [i \in EntryIdx |-> from_reader(disk.blocks[offset][i])])

\* ------------------------------------------------------------ block manager
\* An operator that uses an intermediate result several times takes it as a
\* parameter (the "..._with", "..._of" and "..._at" operators below).

\* block.entries().rev().find_map(PackEntry::next_block), 0 for None.
last_next_block(block) ==
    LET S == {i \in EntryIdx : next_block_of(block.entries[i]) # 0}
    IN  IF S = {} THEN 0 ELSE next_block_of(block.entries[SetMax(S)])

\* The rest of a turn of the loop, with the block r read at st.offset and
\* the link nc it carries.
read_chain_push(st, r, nc) ==
    IF nc # 0
    THEN [st EXCEPT !.offset = nc, !.blocks = Append(st.blocks, r.block)]
    ELSE [st EXCEPT !.blocks = Append(st.blocks, r.block), !.res = "Ok"]

read_chain_with(st, r) ==
    IF r.res # "Ok" THEN [st EXCEPT !.res = r.res]
    ELSE read_chain_push(st, r, last_next_block(r.block))

\* One turn of the loop of read_chain_from_file_at.
read_chain_step(disk, st) == read_chain_with(st, read_block_at(disk, st.offset))

read_chain_start(offset) ==
    [offset |-> offset, blocks |-> << >>, res |-> "Reading"]

RECURSIVE read_chain_loop(_, _)
read_chain_loop(disk, st) ==
    IF st.res # "Reading" THEN st
    ELSE read_chain_loop(disk, read_chain_step(disk, st))

read_chain_from_file_at(disk, offset) ==
    read_chain_loop(disk, read_chain_start(offset))

\* The pos_children of the directory entries other than "." and "..", in
\* entry order.
RECURSIVE child_offsets(_, _)
child_offsets(chain, i) ==
    IF i >= num_entries(chain) THEN << >>
    ELSE IF is_dir(get(chain, i))
            /\ ~(get(chain, i).name = "." \/ get(chain, i).name = "..")
    THEN << get(chain, i).pos >> \o child_offsets(chain, i + 1)
    ELSE child_offsets(chain, i + 1)

Put(chains, k, chain) ==
    [o \in DOMAIN chains \cup {k} |-> IF o = k THEN chain ELSE chains[o]]

\* BlockManager::new: the worklist loop; offsets is the stack.
RECURSIVE parse_index(_, _, _)
RECURSIVE parse_index_with(_, _, _, _, _)
parse_index_with(disk, rest, chains, offset, r) ==
    IF r.res # "Ok" THEN [res |-> r.res, chains |-> chains]
    ELSE parse_index(disk, rest \o child_offsets(r.blocks, 0),
                     Put(chains, offset, r.blocks))

parse_index(disk, offsets, chains) ==
    IF offsets = << >> THEN [res |-> "Ok", chains |-> chains]
    ELSE parse_index_with(
             disk, SubSeq(offsets, 1, Len(offsets) - 1), chains,
             offsets[Len(offsets)],
             read_chain_from_file_at(disk, offsets[Len(offsets)]))

NoChains == [o \in {} |-> << >>]

BlockManager_new(disk) == parse_index(disk, << PK2_ROOT_BLOCK >>, NoChains)

\* resolve_path_to_block_chain_index_at: the fold over the components.
RECURSIVE resolve_path_to_block_chain_index_at(_, _, _)
RECURSIVE resolve_fold_with(_, _, _)
resolve_fold_with(chains, comps, r) ==
    IF r.res # "Ok" THEN r
    ELSE resolve_path_to_block_chain_index_at(chains, r.chain, Tail(comps))

resolve_path_to_block_chain_index_at(chains, idx, comps) ==
    IF comps = << >> THEN [res |-> "Ok", chain |-> idx]
    ELSE IF idx \notin DOMAIN chains
    THEN [res |-> "InvalidChainIndex", chain |-> 0]
    ELSE resolve_fold_with(
             chains, comps, find_block_chain_index_of(chains[idx], Head(comps)))

Front(s) == SubSeq(s, 1, Len(s) - 1)

Last(s) == s[Len(s)]

\* The entry of the parent chain found at index i.
resolved_entry_at(chain, i) ==
    IF i = -1 THEN [res |-> "NotFound", chain |-> 0, idx |-> 0]
    ELSE [res |-> "Ok", chain |-> chain, idx |-> i]

\* The scan of the parent chain p for the last component.
resolve_in_parent(chains, comps, p) ==
    IF p.res # "Ok" THEN [res |-> p.res, chain |-> 0, idx |-> 0]
    ELSE IF p.chain \notin DOMAIN chains
    THEN [res |-> "Panic", chain |-> 0, idx |-> 0]
    ELSE resolved_entry_at(p.chain, find_name(chains[p.chain], Last(comps)))

\* resolve_path_to_entry_and_parent: res "None" is Ok(None), the empty path.
resolve_path_to_entry_and_parent(chains, current_chain, comps) ==
    IF comps = << >> THEN [res |-> "None", chain |-> 0, idx |-> 0]
    ELSE resolve_in_parent(
             chains, comps,
             resolve_path_to_block_chain_index_at(
                 chains, current_chain, Front(comps)))

\* The loop of validate_dir_path_until: the chain reached and the number n
\* of components it went through.
RECURSIVE validate_loop(_, _, _, _)
RECURSIVE validate_with(_, _, _, _, _)
validate_with(chains, chain, comps, n, r) ==
    IF r.res = "Ok" THEN validate_loop(chains, r.chain, comps, n + 1)
    ELSE IF r.res = "NotFound"
    THEN IF comps[n + 1] = ".."
         THEN [res |-> "InvalidPath", chain |-> chain, n |-> n]
         ELSE [res |-> "Ok", chain |-> chain, n |-> n]
    ELSE [res |-> r.res, chain |-> chain, n |-> n]

validate_loop(chains, chain, comps, n) ==
    IF n >= Len(comps) THEN [res |-> "Ok", chain |-> chain, n |-> n]
    ELSE validate_with(
             chains, chain, comps, n,
             IF chain \notin DOMAIN chains
             THEN [res |-> "InvalidChainIndex", chain |-> 0]
             ELSE find_block_chain_index_of(chains[chain], comps[n + 1]))

\* validate_rest discarding one component more than the loop went through.
validate_rest_skip_one(comps, v) ==
    [res |-> v.res, chain |-> v.chain,
     rest |-> SubSeq(comps, IF v.n > 0 THEN v.n + 2 ELSE 1, Len(comps))]

\* The components validate_dir_path_until leaves: all but the first v.n.
validate_rest(comps, v) ==
    [res |-> v.res, chain |-> v.chain,
     rest |-> SubSeq(comps, v.n + 1, Len(comps))]

validate_dir_path_until(chains, chain, comps) ==
    validate_rest(comps, validate_loop(chains, chain, comps, 0))

\* ------------------------------------------------------------ header

PK2_SIGNATURE == "JoyMax File Manager!\n"

PK2_VERSION == 16777218

NoKeyCheck == << "zero" >>

\* The first three bytes of the checksum plaintext encrypted under the key
\* derived from key.  Distinct keys of the model have distinct key checks.
KeyCheck(key) == << "check", key >>

\* PackHeader::default()
PackHeader_default ==
    [signature |-> PK2_SIGNATURE, version |-> PK2_VERSION,
     encrypted |-> FALSE, verify |-> NoKeyCheck]

\* PackHeader::new_encrypted(bf)
PackHeader_new_encrypted(key) ==
    [signature |-> PK2_SIGNATURE, version |-> PK2_VERSION,
     encrypted |-> TRUE, verify |-> KeyCheck(key)]

\* The host file after header.to_writer.
EmptyFile(header) ==
    [len |-> PK2_ROOT_BLOCK, header |-> header,
     blocks |-> [o \in {} |-> << >>], data |-> [o \in {} |-> << >>]]

NoBlowfish == "<no blowfish>"

\* ------------------------------------------------------------ archive

\* The handle _open_in_impl builds from the parsed index m.
opened_with(disk, key, m) ==
    [res |-> m.res,
     blowfish |-> IF disk.header.encrypted THEN key ELSE NoBlowfish,
     chains |-> IF m.res = "Ok" THEN m.chains ELSE NoChains]

OpenError(res) == [res |-> res, blowfish |-> NoBlowfish, chains |-> NoChains]

\* key_rejected comparing the key check of an unencrypted archive as well.
key_rejected_unencrypted_too(header, key) == KeyCheck(key) # header.verify

\* Whether the key check of _open_in_impl rejects key.
key_rejected(header, key) ==
    header.encrypted /\ KeyCheck(key) # header.verify

\* Pk2::_open_in_impl: the handle (blowfish, chains) or the error.
open_in_impl(disk, key) ==
    IF disk.header.signature # PK2_SIGNATURE THEN OpenError("CorruptedFile")
    ELSE IF disk.header.version # PK2_VERSION
    THEN OpenError("UnsupportedVersion")
    ELSE IF key_rejected(disk.header, key) THEN OpenError("InvalidKey")
    ELSE opened_with(disk, key, BlockManager_new(disk))

\* root_block with a ".." entry beside ".".
root_block_with_dotdot ==
    [PackBlock_new(PK2_ROOT_BLOCK) EXCEPT
        !.entries[1] = new_directory(".", PK2_ROOT_BLOCK, 0),
        !.entries[2] = new_directory("..", PK2_ROOT_BLOCK, 0)]

\* The root block _create_impl writes.
root_block ==
    [PackBlock_new(PK2_ROOT_BLOCK) EXCEPT
        !.entries[1] = new_directory(".", PK2_ROOT_BLOCK, 0)]

created_with(disk, key, m) ==
    [res |-> m.res, disk |-> disk,
     blowfish |-> IF key = "" THEN NoBlowfish ELSE key,
     chains |-> m.chains]

created_on(disk, key) == created_with(disk, key, BlockManager_new(disk))

\* Pk2::_create_impl: the host file and the handle.
create_impl(key) ==
    created_on(
        write_block(
            EmptyFile(IF key = "" THEN PackHeader_default
                      ELSE PackHeader_new_encrypted(key)),
            root_block),
        key)

\* check_root accepting a path without the leading "/".
check_root_any(path) == [res |-> "Ok", comps |-> path.comps]

\* check_root: the components after the leading "/".
check_root(path) ==
    IF path.abs THEN [res |-> "Ok", comps |-> path.comps]
    ELSE [res |-> "InvalidPath", comps |-> << >>]

\* The empty path, for which the block manager has no entry to return, is
\* the InvalidPath that open_directory takes for the root.
root_resolved(r) ==
    IF r.res = "None" THEN [res |-> "InvalidPath", chain |-> 0, idx |-> 0]
    ELSE r

\* Pk2::root_resolve_path_to_entry_and_parent
root_resolve_path_to_entry_and_parent(chains, path) ==
    IF check_root(path).res # "Ok"
    THEN [res |-> check_root(path).res, chain |-> 0, idx |-> 0]
    ELSE root_resolved(
             resolve_path_to_entry_and_parent(
                 chains, PK2_ROOT_BLOCK, check_root(path).comps))

\* require_file without the check of the variant.
require_file_any(chains, r) == r

\* Self::is_file(entry)? on the resolved entry r.
require_file(chains, r) ==
    IF r.res # "Ok" THEN r
    ELSE IF ~is_file(get(chains[r.chain], r.idx))
    THEN [res |-> "ExpectedFile", chain |-> 0, idx |-> 0]
    ELSE r

\* Pk2::open_file: the (chain, entry index) the File is bound to.
open_file(chains, path) ==
    require_file(chains, root_resolve_path_to_entry_and_parent(chains, path))

\* Pk2::open_file_mut: the (chain, entry index) the FileMut is bound to.
open_file_mut(chains, path) ==
    require_file(chains, root_resolve_path_to_entry_and_parent(chains, path))

\* open_directory_at surfacing the empty path as the error InvalidPath.
open_directory_at_no_root(chains, r) ==
    IF r.res = "None"
    THEN [res |-> "InvalidPath", chain |-> 0, idx |-> 0]
    ELSE IF r.res # "Ok" THEN r
    ELSE IF ~is_dir(get(chains[r.chain], r.idx))
    THEN [res |-> "ExpectedDirectory", chain |-> 0, idx |-> 0]
    ELSE r

\* open_directory on the resolved entry r: the empty path is the root, bound
\* to (PK2_ROOT_BLOCK, 0).
open_directory_at(chains, r) ==
    IF r.res = "None"
    THEN [res |-> "Ok", chain |-> PK2_ROOT_BLOCK, idx |-> 0]
    ELSE IF r.res # "Ok" THEN r
    ELSE IF ~is_dir(get(chains[r.chain], r.idx))
    THEN [res |-> "ExpectedDirectory", chain |-> 0, idx |-> 0]
    ELSE r

\* Pk2::open_directory: the (chain, entry index) the Directory is bound to.
open_directory(chains, path) ==
    IF check_root(path).res # "Ok"
    THEN [res |-> check_root(path).res, chain |-> 0, idx |-> 0]
    ELSE open_directory_at(
             chains,
             resolve_path_to_entry_and_parent(
                 chains, PK2_ROOT_BLOCK, check_root(path).comps))

\* The names a Directory view yields from entry i on: the entries of the
\* chain that are not Empty and not "." or "..".
RECURSIVE visible_names(_, _)
visible_names(chain, i) ==
    IF i >= num_entries(chain) THEN << >>
    ELSE IF is_empty(get(chain, i))
            \/ get(chain, i).name = "." \/ get(chain, i).name = ".."
    THEN visible_names(chain, i + 1)
    ELSE << get(chain, i).name >> \o visible_names(chain, i + 1)

\* Directory::entries of the view d open_directory returned.
directory_entries(chains, d) ==
    IF get(chains[d.chain], d.idx).pos \notin DOMAIN chains THEN << "<panic>" >>
    ELSE visible_names(chains[get(chains[d.chain], d.idx).pos], 0)

\* File::read_to_end on the handle f open_file returned.
read_to_end(chains, disk, f) ==
    read_data(disk, get(chains[f.chain], f.idx).pos,
              get(chains[f.chain], f.idx).size)

\* PackBlockChain::create_new_block: a fresh block at the end of the host
\* file, linked from entry 19 of the last block.
create_new_block(chain, disk) ==
    LET new_offset == file_len(disk)
        last_idx == num_entries(chain) - 1
        linked == set_next_block(get(chain, last_idx), new_offset)
    IN  [chain |-> Append(set_entry(chain, last_idx, linked),
                          PackBlock_new(new_offset)),
         disk |-> write_entry_at(
                      write_block(disk, PackBlock_new(new_offset)),
                      file_offset_for_entry(chain, last_idx), linked),
         idx |-> last_idx + 1]

\* new_chain_block with ".." pointing at the new chain.
new_chain_block_dotdot_self(new_chain_offset, parent_chain_index) ==
    [PackBlock_new(new_chain_offset) EXCEPT
        !.entries[1] = new_directory(".", new_chain_offset, 0),
        !.entries[2] = new_directory("..", new_chain_offset, 0)]

\* new_chain_block with "." pointing at the parent chain.
new_chain_block_dot_parent(new_chain_offset, parent_chain_index) ==
    [PackBlock_new(new_chain_offset) EXCEPT
        !.entries[1] = new_directory(".", parent_chain_index, 0),
        !.entries[2] = new_directory("..", parent_chain_index, 0)]

\* The first block of a new directory's chain.
new_chain_block(new_chain_offset, parent_chain_index) ==
    [PackBlock_new(new_chain_offset) EXCEPT
        !.entries[1] = new_directory(".", new_chain_offset, 0),
        !.entries[2] = new_directory("..", parent_chain_index, 0)]

\* create_new_block_chain with the directory entry pointing at the chain
\* that holds it.
create_new_block_chain_self_link(disk, current_chain, dir_name, chain_entry_idx) ==
    LET new_chain_offset == file_len(disk)
        entry == new_directory(
                     dir_name, chain_index(current_chain),
                     next_block_of(get(current_chain, chain_entry_idx)))
        block == new_chain_block(new_chain_offset, chain_index(current_chain))
    IN  [offset |-> new_chain_offset,
         chain |-> << block >>,
         parent |-> set_entry(current_chain, chain_entry_idx, entry),
         disk |-> write_entry_at(
                      write_block(disk, block),
                      file_offset_for_entry(current_chain, chain_entry_idx),
                      entry)]

\* create_new_block_chain with the parent entry pointing at the end of the
\* host file as it is after the new block was written.
create_new_block_chain_late_len(disk, current_chain, dir_name, chain_entry_idx) ==
    LET new_chain_offset == file_len(disk)
        entry == new_directory(
                     dir_name, new_chain_offset + PK2_FILE_BLOCK_SIZE,
                     next_block_of(get(current_chain, chain_entry_idx)))
        block == new_chain_block(new_chain_offset, chain_index(current_chain))
    IN  [offset |-> new_chain_offset,
         chain |-> << block >>,
         parent |-> set_entry(current_chain, chain_entry_idx, entry),
         disk |-> write_entry_at(
                      write_block(disk, block),
                      file_offset_for_entry(current_chain, chain_entry_idx),
                      entry)]

\* create_new_block_chain rewriting the parent entry before it writes the
\* block of the new chain.
create_new_block_chain_entry_first(disk, current_chain, dir_name, chain_entry_idx) ==
    LET new_chain_offset == file_len(disk)
        entry == new_directory(
                     dir_name, new_chain_offset,
                     next_block_of(get(current_chain, chain_entry_idx)))
        block == new_chain_block(new_chain_offset, chain_index(current_chain))
    IN  [offset |-> new_chain_offset,
         chain |-> << block >>,
         parent |-> set_entry(current_chain, chain_entry_idx, entry),
         disk |-> write_block(
                      write_entry_at(
                          disk,
                          file_offset_for_entry(current_chain, chain_entry_idx),
                          entry),
                      block)]

\* Pk2::create_new_block_chain
create_new_block_chain(disk, current_chain, dir_name, chain_entry_idx) ==
    LET new_chain_offset == file_len(disk)
        entry == new_directory(
                     dir_name, new_chain_offset,
                     next_block_of(get(current_chain, chain_entry_idx)))
        block == new_chain_block(new_chain_offset, chain_index(current_chain))
    IN  [offset |-> new_chain_offset,
         chain |-> << block >>,
         parent |-> set_entry(current_chain, chain_entry_idx, entry),
         disk |-> write_entry_at(
                      write_block(disk, block),
                      file_offset_for_entry(current_chain, chain_entry_idx),
                      entry)]

\* The ".." arm of create_entry_at: the children_position of the first
\* directory entry that is a parent link, or -1.
parent_link(chain) ==
    LET S == {i \in 0..(num_entries(chain) - 1) :
                 is_dir(get(chain, i)) /\ get(chain, i).name = ".."}
    IN  IF S = {} THEN -1 ELSE get(chain, SetMin(S)).pos

CreateResult(res, chain, idx, chains, disk) ==
    [res |-> res, chain |-> chain, idx |-> idx, chains |-> chains,
     disk |-> disk]

\* slot_at overwriting the last entry of a full chain.
slot_at_last_entry(chain, disk, pos) ==
    [chain |-> chain, disk |-> disk,
     idx |-> IF pos # -1 THEN pos ELSE num_entries(chain) - 1]

\* The slot for a new entry: the first Empty one, or the first of a new block.
slot_at(chain, disk, pos) ==
    IF pos # -1
    THEN [chain |-> chain, disk |-> disk, idx |-> pos]
    ELSE create_new_block(chain, disk)

slot_for_entry(chain, disk) == slot_at(chain, disk, empty_pos(chain))

\* The loop of create_entry_at over the components validate_dir_path_until
\* left.
RECURSIVE create_loop(_, _, _, _)
RECURSIVE create_descend(_, _, _, _)
RECURSIVE create_normal(_, _, _, _)
RECURSIVE create_parent(_, _, _, _)
\* create_descend without the insert of the new chain into the chain map.
create_descend_no_insert(chains, current_chain_index, comps, n) ==
    create_loop(Put(chains, current_chain_index, n.parent),
                n.disk, n.offset, Tail(comps))

\* After create_new_block_chain returned n: insert, and go on in the new chain.
create_descend(chains, current_chain_index, comps, n) ==
    create_loop(Put(Put(chains, current_chain_index, n.parent),
                    n.offset, n.chain),
                n.disk, n.offset, Tail(comps))

\* The Component::Normal arm, with the slot found or made.
create_normal(chains, current_chain_index, comps, slot) ==
    IF Tail(comps) # << >>
    THEN create_descend(
             chains, current_chain_index, comps,
             create_new_block_chain(slot.disk, slot.chain, Head(comps),
                                    slot.idx))
    ELSE CreateResult("Ok", chain_index(slot.chain), slot.idx,
                      Put(chains, current_chain_index, slot.chain), slot.disk)

\* The Component::ParentDir arm, with the parent link found (or -1).
create_parent(chains, disk, comps, up) ==
    IF up = -1 THEN CreateResult("InvalidPath", 0, 0, chains, disk)
    ELSE create_loop(chains, disk, up, Tail(comps))

create_loop(chains, disk, current_chain_index, comps) ==
    IF comps = << >> THEN CreateResult("AlreadyExists", 0, 0, chains, disk)
    ELSE IF current_chain_index \notin DOMAIN chains
    THEN CreateResult("InvalidChainIndex", 0, 0, chains, disk)
    ELSE IF Head(comps) = ".."
    THEN create_parent(chains, disk, comps,
                       parent_link(chains[current_chain_index]))
    ELSE create_normal(chains, current_chain_index, comps,
                       slot_for_entry(chains[current_chain_index], disk))

\* create_entry_at after validate_dir_path_until returned v.
create_after_validate(chains, disk, v) ==
    IF v.res # "Ok" THEN CreateResult(v.res, 0, 0, chains, disk)
    ELSE create_loop(chains, disk, v.chain, v.rest)

\* Pk2::create_entry_at
create_entry_at(chains, disk, chain, comps) ==
    create_after_validate(chains, disk,
                          validate_dir_path_until(chains, chain, comps))

\* Path::file_name: the last component unless it is "..".
file_name(comps) ==
    IF comps = << >> \/ Last(comps) = ".." THEN NoName ELSE Last(comps)

\* The entry e after a write of bytes at the end of a host file of length len.
written_entry(e, len, bytes) ==
    IF Len(bytes) > e.size
    THEN [e EXCEPT !.pos = len, !.size = Len(bytes)]
    ELSE e

\* FileMut::write_all(bytes) and the flush that follows: a write beyond the
\* payload region appends at the end of the host file; the entry is
\* rewritten at its file offset.
write_all_flush(chains, disk, chain, idx, bytes) ==
    LET e == get(chains[chain], idx)
        e2 == written_entry(e, file_len(disk), bytes)
    IN  [chains |-> Put(chains, chain, set_entry(chains[chain], idx, e2)),
         disk |-> write_entry_at(
                      IF Len(bytes) > e.size THEN append_data(disk, bytes)
                      ELSE disk,
                      file_offset_for_entry(chains[chain], idx), e2)]

FileResult(res, s) == [res |-> res, chains |-> s.chains, disk |-> s.disk]

\* create_file_at with the new File entry positioned inside the header.
create_file_at_in_header(r, name, bytes) ==
    IF r.res # "Ok" THEN FileResult(r.res, r)
    ELSE FileResult(
             "Ok",
             write_all_flush(
                 Put(r.chains, r.chain,
                     set_entry(r.chains[r.chain], r.idx,
                         new_file(name, 16, 0,
                             next_block_of(get(r.chains[r.chain], r.idx))))),
                 r.disk, r.chain, r.idx, bytes))

\* create_file after create_entry_at returned r: the new File entry in the
\* chain map, then the write through the FileMut.
create_file_at(r, name, bytes) ==
    IF r.res # "Ok" THEN FileResult(r.res, r)
    ELSE FileResult(
             "Ok",
             write_all_flush(
                 Put(r.chains, r.chain,
                     set_entry(r.chains[r.chain], r.idx,
                         new_file(name, 0, 0,
                             next_block_of(get(r.chains[r.chain], r.idx))))),
                 r.disk, r.chain, r.idx, bytes))

\* Pk2::create_file, then write_all(bytes) on the FileMut and its flush.
create_file(chains, disk, path, bytes) ==
    IF check_root(path).res # "Ok"
    THEN [res |-> check_root(path).res, chains |-> chains, disk |-> disk]
    ELSE IF file_name(check_root(path).comps) = NoName
    THEN [res |-> "NonUnicodePath", chains |-> chains, disk |-> disk]
    ELSE create_file_at(
             create_entry_at(chains, disk, PK2_ROOT_BLOCK,
                             check_root(path).comps),
             file_name(check_root(path).comps), bytes)

\* delete_file on the resolved entry r.
delete_resolved(chains, disk, r) ==
    IF r.res # "Ok" THEN [res |-> r.res, chains |-> chains, disk |-> disk]
    ELSE [res |-> "Ok",
          chains |-> Put(chains, r.chain,
                         set_entry(chains[r.chain], r.idx,
                                   clear(get(chains[r.chain], r.idx)))),
          disk |-> write_entry_at(
                       disk, file_offset_for_entry(chains[r.chain], r.idx),
                       new_empty(next_block_of(get(chains[r.chain], r.idx))))]

\* Pk2::delete_file
delete_file(chains, disk, path) ==
    delete_resolved(chains, disk, open_file(chains, path))

\* ------------------------------------------------------------ inputs

AbsPath(comps) == [abs |-> TRUE, comps |-> comps]

RelPath(comps) == [abs |-> FALSE, comps |-> comps]

\* The paths create_file and delete_file are called with.
Paths ==
    { AbsPath(<< "a" >>), AbsPath(<< "d" >>), AbsPath(<< "d", "a" >>),
      AbsPath(<< "d", "e", "a" >>), AbsPath(<< "d", "..", "a" >>),
      AbsPath(<< "..", "a" >>), RelPath(<< "a" >>) }

FillPath(i) == AbsPath(<< FillNames[i] >>)

\* The root files delete_file is also called with.
DeleteFillPaths == { FillPath(10), FillPath(19) }

\* The payloads written to a new file.
Payloads == { << >>, << 1 >> }

FillBytes == << 7 >>

\* The default key of the command line, another key, and the empty key.
DefaultKey == "169841"

Keys == { "", DefaultKey, "k2" }

\* The numbers of root files after which the other operations start.
FillStops == { 0, 19, 20, MaxFill }

\* Every path the properties look a file up with.
ProbePaths == Paths \cup { FillPath(i) : i \in 1..MaxFill }

\* ------------------------------------------------------------ state

VARIABLES
    disk,       \* the host file
    chains,     \* the chain map of the open archive
    blowfish,   \* the key of the open archive, or NoBlowfish
    opened,     \* whether the program holds an open archive
    made_key,   \* the key the archive was created with
    last,       \* the last operation: its name, inputs and result
    nfill,      \* root files created by CreateFill
    nops,       \* the other operations done
    rd,         \* the state of read_chain_from_file_at, in SpecParse
    wr          \* the writes create_file has still to do, in SpecWrites

vars ==
    << disk, chains, blowfish, opened, made_key, last, nfill, nops, rd, wr >>

NoPath == AbsPath(<< >>)

Op(op, path, bytes, key, res) ==
    [op |-> op, path |-> path, bytes |-> bytes, key |-> key, res |-> res]

RdIdle == [offset |-> 0, blocks |-> << >>, res |-> "Idle"]

WrIdle ==
    [pending |-> << >>, chains |-> NoChains, path |-> NoPath,
     bytes |-> << >>, res |-> "Idle"]

InitFrom(key, c) ==
    /\ disk = c.disk
    /\ chains = c.chains
    /\ blowfish = c.blowfish
    /\ opened = (c.res = "Ok")
    /\ made_key = key
    /\ last = Op("create", NoPath, << >>, key, c.res)
    /\ nfill = 0
    /\ nops = 0
    /\ rd = RdIdle
    /\ wr = WrIdle

\* Pk2::create_new_in(file, key)
InitWith(key) == InitFrom(key, create_impl(key))

Init == InitWith(DefaultKey)

\* ------------------------------------------------------------ actions

AfterCreateFile(path, bytes, r) ==
    /\ chains' = r.chains
    /\ disk' = r.disk
    /\ last' = Op("create_file", path, bytes, "", r.res)
    /\ UNCHANGED << blowfish, opened, made_key, rd, wr >>

DoCreateFile(path, bytes) ==
    AfterCreateFile(path, bytes, create_file(chains, disk, path, bytes))

\* create_file("/fNN"), write_all, flush: the next root file.
CreateFill ==
    /\ opened
    /\ nops = 0
    /\ nfill < MaxFill
    /\ DoCreateFile(FillPath(nfill + 1), FillBytes)
    /\ nfill' = nfill + 1
    /\ UNCHANGED nops

\* create_file(path), write_all(bytes), flush.
CreateFile(path, bytes) ==
    /\ opened
    /\ nfill \in FillStops
    /\ nops < MaxOps
    /\ DoCreateFile(path, bytes)
    /\ nops' = nops + 1
    /\ UNCHANGED nfill

AfterDeleteFile(path, r) ==
    /\ chains' = r.chains
    /\ disk' = r.disk
    /\ last' = Op("delete_file", path, << >>, "", r.res)

\* delete_file(path)
DeleteFile(path) ==
    /\ opened
    /\ nfill \in FillStops
    /\ nops < MaxOps
    /\ AfterDeleteFile(path, delete_file(chains, disk, path))
    /\ nops' = nops + 1
    /\ UNCHANGED << blowfish, opened, made_key, nfill, rd, wr >>

AfterOpen(key, r) ==
    /\ chains' = r.chains
    /\ blowfish' = r.blowfish
    /\ opened' = (r.res = "Ok")
    /\ last' = Op("open", NoPath, << >>, key, r.res)

\* The archive is dropped and the host file opened again with key.
Reopen(key) ==
    /\ nfill \in FillStops
    /\ nops < MaxOps
    /\ AfterOpen(key, open_in_impl(disk, key))
    /\ nops' = nops + 1
    /\ UNCHANGED << disk, made_key, nfill, rd, wr >>

Next ==
    \/ CreateFill
    \/ \E path \in Paths, bytes \in Payloads : CreateFile(path, bytes)
    \/ \E path \in Paths \cup DeleteFillPaths : DeleteFile(path)
    \/ Reopen(made_key)

Spec == Init /\ [][Next]_vars

\* ------------------------------------------------------------ other specifications

\* The archive created with any key and opened again with any key.
InitKey == \E key \in Keys : InitWith(key)

NextKey ==
    \/ CreateFill
    \/ \E key \in Keys : Reopen(key)

SpecKey == InitKey /\ [][NextKey]_vars

\* A host file written by another program: three blocks after the header,
\* entry 19 of each a File entry whose next_block is any of their offsets.
CraftedOffsets ==
    { PK2_ROOT_BLOCK, PK2_ROOT_BLOCK + PK2_FILE_BLOCK_SIZE,
      PK2_ROOT_BLOCK + 2 * PK2_FILE_BLOCK_SIZE }

CraftedBlock(first, next_block) ==
    [i \in EntryIdx |->
        IF i = 1 THEN to_writer(first)
        ELSE IF i = PK2_FILE_BLOCK_ENTRY_COUNT
        THEN to_writer(new_file("x", 0, 0, next_block))
        ELSE to_writer(new_empty(0))]

CraftedDisk(links) ==
    [len |-> PK2_ROOT_BLOCK + 3 * PK2_FILE_BLOCK_SIZE,
     header |-> PackHeader_default,
     blocks |-> [o \in CraftedOffsets |->
                    CraftedBlock(
                        IF o = PK2_ROOT_BLOCK
                        THEN new_directory(".", PK2_ROOT_BLOCK, 0)
                        ELSE new_file("y", 0, 0, 0),
                        links[o])],
     data |-> [o \in {} |-> << >>]]

InitParse ==
    /\ \E links \in [CraftedOffsets -> CraftedOffsets \cup {0}] :
           disk = CraftedDisk(links)
    /\ chains = NoChains
    /\ blowfish = NoBlowfish
    /\ opened = FALSE
    /\ made_key = ""
    /\ last = Op("open", NoPath, << >>, "", "Reading")
    /\ nfill = 0
    /\ nops = 0
    /\ rd = read_chain_start(PK2_ROOT_BLOCK)
    /\ wr = WrIdle

\* One turn of the loop of read_chain_from_file_at on the root chain.
ReadChainStep ==
    /\ rd.res = "Reading"
    /\ Len(rd.blocks) < MaxLoaded
    /\ rd' = read_chain_step(disk, rd)
    /\ UNCHANGED << disk, chains, blowfish, opened, made_key, last, nfill,
                    nops, wr >>

NextParse == ReadChainStep

SpecParse == InitParse /\ [][NextParse]_vars

\* Files in directories nested one deeper each: /d/a, /d/e/a, /d/e/g/a,
\* /d/e/g/h/a.
NestedPaths ==
    { AbsPath(<< "d", "a" >>), AbsPath(<< "d", "e", "a" >>),
      AbsPath(<< "d", "e", "g", "a" >>),
      AbsPath(<< "d", "e", "g", "h", "a" >>) }

\* create_file(path) with nothing written, on a nested path.
CreateNested(path) ==
    /\ opened
    /\ nops < MaxNested
    /\ DoCreateFile(path, << >>)
    /\ nops' = nops + 1
    /\ UNCHANGED nfill

NextNested == \E path \in NestedPaths : CreateNested(path)

SpecNested == Init /\ [][NextNested]_vars

\* create_file one write to the host file at a time.  The call computes its
\* writes in the order of the code; each step does the next one; the call
\* returns after the last.
WritePaths ==
    { AbsPath(<< "a" >>), AbsPath(<< "d", "a" >>),
      AbsPath(<< "d", "e", "a" >>), AbsPath(<< "d", "..", "a" >>),
      AbsPath(<< "..", "a" >>) }

\* The call returned: its result and its chain map.
Returned(w) ==
    /\ chains' = w.chains
    /\ last' = Op("create_file", w.path, w.bytes, "", w.res)
    /\ wr' = WrIdle

\* The call with the writes of r still to do.
Writing(path, bytes, r) ==
    [pending |-> r.disk.log, chains |-> r.chains, path |-> path,
     bytes |-> bytes, res |-> r.res]

BeginCreateWith(path, bytes, r) ==
    /\ IF r.disk.log = << >>
       THEN Returned(Writing(path, bytes, r))
       ELSE /\ wr' = Writing(path, bytes, r)
            /\ UNCHANGED << chains, last >>
    /\ UNCHANGED << disk, blowfish, opened, made_key, nfill, rd >>

\* create_file(path) is called.
BeginCreate(path, bytes) ==
    /\ opened
    /\ wr.pending = << >>
    /\ nfill \in FillStops
    /\ nops < MaxOps
    /\ nops' = nops + 1
    /\ BeginCreateWith(path, bytes,
                       create_file(chains, Journal(disk), path, bytes))

\* The next write of the call reaches the host file.
WriteStep ==
    /\ wr.pending # << >>
    /\ disk' = apply_write(disk, Head(wr.pending))
    /\ IF Tail(wr.pending) = << >>
       THEN Returned(wr)
       ELSE /\ wr' = [wr EXCEPT !.pending = Tail(wr.pending)]
            /\ UNCHANGED << chains, last >>
    /\ UNCHANGED << blowfish, opened, made_key, nfill, nops, rd >>

\* The root files are created while no call is writing.
FillStep == wr.pending = << >> /\ CreateFill

NextWrites ==
    \/ FillStep
    \/ \E path \in WritePaths, bytes \in Payloads : BeginCreate(path, bytes)
    \/ WriteStep

SpecWrites == Init /\ [][NextWrites]_vars

\* ------------------------------------------------------------ properties

\* The archive as a re-open with the key it was created with parses it.
Reopened == open_in_impl(disk, made_key)

\* open_file(path) and read_to_end on (cs, d).
ReadBack(cs, d, path) ==
    LET f == open_file(cs, path)
    IN  IF f.res # "Ok" THEN [res |-> f.res, bytes |-> << >>, size |-> 0]
        ELSE [res |-> "Ok", bytes |-> read_to_end(cs, d, f),
              size |-> get(cs[f.chain], f.idx).size]

LiveIdx(chain) ==
    {i \in 0..(num_entries(chain) - 1) : ~is_empty(get(chain, i))}

\* The directory entries, other than "." and "..", that point at chain c.
LinksTo(c) ==
    { l \in UNION { {<< p, i >> : i \in LiveIdx(chains[p])} : p \in DOMAIN chains } :
        LET e == get(chains[l[1]], l[2])
        IN  is_dir(e) /\ e.name # "." /\ e.name # ".." /\ e.pos = c }

\* C1: after create_file(p), write_all(b) and flush, open_file(p) read to the
\* end gives exactly b, and so it does after the archive is opened again,
\* with the entry's size equal to len(b).
C1_RoundTrip ==
    (last.op = "create_file" /\ last.res = "Ok") =>
        /\ ReadBack(chains, disk, last.path)
             = [res |-> "Ok", bytes |-> last.bytes, size |-> Len(last.bytes)]
        /\ ReadBack(Reopened.chains, disk, last.path)
             = [res |-> "Ok", bytes |-> last.bytes, size |-> Len(last.bytes)]

\* C2: after delete_file(p), every other file open_file resolves is still
\* resolved once the archive is closed and opened again.
C2_DeletionKeepsChain ==
    (last.op = "delete_file" /\ last.res = "Ok") =>
        \A q \in ProbePaths \ {last.path} :
            open_file(chains, q).res = "Ok"
                => open_file(Reopened.chains, q).res = "Ok"

\* C3 as claimed: opening with the key of creation succeeds and opening with
\* any other key fails with InvalidKey, for every key of creation.
C3_OtherKeyIsInvalid ==
    last.op = "open" =>
        /\ last.key = made_key => last.res = "Ok"
        /\ last.key # made_key => last.res = "InvalidKey"

\* C3 as amended: opening with the key of creation succeeds; an archive
\* created with a non-empty key rejects a key with another key check with
\* InvalidKey; an archive created with the empty key opens with every key.
C3_KeyCheck ==
    last.op = "open" =>
        /\ last.key = made_key => last.res = "Ok"
        /\ (made_key # "" /\ KeyCheck(last.key) # KeyCheck(made_key))
               => last.res = "InvalidKey"
        /\ made_key = "" => last.res = "Ok"

C3_Witness ==
    /\ last.op = "open"
    /\ made_key # ""
    /\ last.key # made_key
    /\ last.res = "InvalidKey"
    /\ nfill > 0

\* C4: in every reachable state, delete_file(p) returning Ok leaves
\* open_file(p) returning NotFound and every chain with the blocks it had.
C4_DeletedIsNotFound ==
    \A p \in ProbePaths :
        LET r == delete_file(chains, disk, p)
        IN  r.res = "Ok" =>
                /\ open_file(r.chains, p).res = "NotFound"
                /\ DOMAIN r.chains = DOMAIN chains
                /\ \A c \in DOMAIN chains : Len(r.chains[c]) = Len(chains[c])

\* C5: within every chain no two live entries have the same name.
C5_UniqueNames ==
    \A c \in DOMAIN chains :
        \A i, j \in LiveIdx(chains[c]) :
            i # j => get(chains[c], i).name # get(chains[c], j).name

\* C6 as claimed: every chain has entry[0] = Directory "." pointing at the
\* chain and entry[1] = Directory ".." pointing at the parent chain, the
\* root's ".." pointing at the root.
C6_DotAndDotDotEverywhere ==
    \A c \in DOMAIN chains :
        /\ get(chains[c], 0) = new_directory(".", c, get(chains[c], 0).next_block)
        /\ is_dir(get(chains[c], 1))
        /\ get(chains[c], 1).name = ".."
        /\ IF c = PK2_ROOT_BLOCK
           THEN get(chains[c], 1).pos = PK2_ROOT_BLOCK
           ELSE \E l \in LinksTo(c) : get(chains[c], 1).pos = l[1]

\* C6 as amended: every chain has entry[0] = Directory "." pointing at the
\* chain; every chain but the root has entry[1] = Directory ".." pointing at
\* the chain that holds its directory entry; the root chain has no ".."
\* entry.
C6_DotAndDotDot ==
    \A c \in DOMAIN chains :
        /\ get(chains[c], 0) = new_directory(".", c, get(chains[c], 0).next_block)
        /\ IF c = PK2_ROOT_BLOCK
           THEN \A i \in LiveIdx(chains[c]) : get(chains[c], i).name # ".."
           ELSE /\ is_dir(get(chains[c], 1))
                /\ get(chains[c], 1).name = ".."
                /\ \E l \in LinksTo(c) : get(chains[c], 1).pos = l[1]

C6_Witness ==
    /\ last.op = "create_file"
    /\ last.res = "Ok"
    /\ Cardinality(DOMAIN chains) >= 3
    /\ Len(chains[PK2_ROOT_BLOCK]) >= 2

\* C7: for every chain of the chain map, entry[0] of its first block is a
\* Directory named "." whose pos_children is the chain's own index.
C7_DotEntry ==
    \A c \in DOMAIN chains :
        /\ chain_index(chains[c]) = c
        /\ is_dir(get(chains[c], 0))
        /\ get(chains[c], 0).name = "."
        /\ get(chains[c], 0).pos = c

C7_Witness ==
    /\ last.op = "delete_file"
    /\ last.res = "Ok"
    /\ Cardinality(DOMAIN chains) >= 2
    /\ \E c \in DOMAIN chains : c # PK2_ROOT_BLOCK /\ is_empty(get(chains[c], 2))

\* C8: for every chain C but the root exactly one Directory entry not named
\* "." or ".." has pos_children = C, it is in another chain, and the ".."
\* entry of C points at that chain.
C8_OneParentLink ==
    \A c \in DOMAIN chains \ {PK2_ROOT_BLOCK} :
        /\ Cardinality(LinksTo(c)) = 1
        /\ \A l \in LinksTo(c) :
               /\ l[1] # c
               /\ parent_link(chains[c]) = l[1]

C8_Witness ==
    /\ Cardinality(DOMAIN chains) >= 3
    /\ last.op = "open"
    /\ last.res = "Ok"

\* C9: create_file(p) returns AlreadyExists whenever the last name of p is a
\* live entry of the directory the rest of p resolves to, and then changes
\* neither the chain map nor the host file.
C9_AlreadyExists ==
    \A p \in Paths, b \in Payloads :
        LET comps == check_root(p).comps
            parent == resolve_path_to_block_chain_index_at(
                          chains, PK2_ROOT_BLOCK, Front(comps))
            r == create_file(chains, disk, p, b)
        IN  (/\ p.abs
             /\ comps # << >>
             /\ parent.res = "Ok"
             /\ parent.chain \in DOMAIN chains
             /\ find_name(chains[parent.chain], Last(comps)) # -1)
            => /\ r.res = "AlreadyExists"
               /\ r.chains = chains
               /\ r.disk = disk

\* C10: the index parser loads at most host-file-length / 2560 blocks for
\* one chain, and ends with CorruptedFile when the links form a cycle.
C10_LoadBounded ==
    /\ Len(rd.blocks) <= disk.len \div PK2_FILE_BLOCK_SIZE
    /\ (rd.res # "Reading" /\ \E i, j \in 1..Len(rd.blocks) :
            i # j /\ rd.blocks[i].offset = rd.blocks[j].offset)
           => rd.res = "CorruptedFile"

\* The paths create_file is called with in a state: Paths and the next
\* root file.
CreatePaths == Paths \cup { FillPath(nfill + 1) }

\* Whether r, the result of create_file(p) on a chain c of n blocks all of
\* whose entries are live, added one block at the old end of the host file,
\* linked from entry 19 of the old last block, with the new entry at 20 * n.
AppendedOneBlock(r, c, n, name) ==
    /\ r.res = "Ok"
    /\ DOMAIN r.chains = DOMAIN chains
    /\ Len(r.chains[c]) = n + 1
    /\ r.chains[c][n + 1].offset = file_len(disk)
    /\ \A k \in 1..n : r.chains[c][k].offset = chains[c][k].offset
    /\ get(r.chains[c], PK2_FILE_BLOCK_ENTRY_COUNT * n - 1).next_block
           = file_len(disk)
    /\ from_reader(r.disk.blocks[chains[c][n].offset]
                       [PK2_FILE_BLOCK_ENTRY_COUNT]).next_block
           = file_len(disk)
    /\ file_len(disk) \in DOMAIN r.disk.blocks
    /\ is_file(get(r.chains[c], PK2_FILE_BLOCK_ENTRY_COUNT * n))
    /\ get(r.chains[c], PK2_FILE_BLOCK_ENTRY_COUNT * n).name = name
    /\ \A i \in (PK2_FILE_BLOCK_ENTRY_COUNT * n + 1)
                   ..(PK2_FILE_BLOCK_ENTRY_COUNT * (n + 1) - 1) :
           is_empty(get(r.chains[c], i))

\* C11: create_file of a new name in a chain all of whose entries are live
\* appends exactly one block at the old end of the host file, links it from
\* entry 19 of the old last block and puts the new entry at 20 x (old block
\* count); the root chain of a fresh archive gets its second block with the
\* 20th root file and has 2 blocks after the 21st.
C11_FullChainGrows ==
    /\ \A p \in CreatePaths, b \in Payloads :
           LET comps == check_root(p).comps
               v == validate_dir_path_until(chains, PK2_ROOT_BLOCK, comps)
           IN  (/\ opened
                /\ p.abs
                /\ v.res = "Ok"
                /\ Len(v.rest) = 1
                /\ v.rest[1] # ".."
                /\ find_name(chains[v.chain], v.rest[1]) = -1
                /\ empty_pos(chains[v.chain]) = -1)
               => AppendedOneBlock(create_file(chains, disk, p, b), v.chain,
                                   Len(chains[v.chain]), v.rest[1])
    /\ nops = 0 =>
           Len(chains[PK2_ROOT_BLOCK])
               = IF nfill >= PK2_FILE_BLOCK_ENTRY_COUNT THEN 2 ELSE 1

C11_Witness ==
    /\ nops = 0
    /\ nfill = PK2_FILE_BLOCK_ENTRY_COUNT
    /\ last.op = "create_file"
    /\ last.res = "Ok"
    /\ Len(chains[PK2_ROOT_BLOCK]) = 2
    /\ is_file(get(chains[PK2_ROOT_BLOCK], PK2_FILE_BLOCK_ENTRY_COUNT))

\* Whether path p has only normal components, at least one directory, and
\* no entry for its first component in the root chain.
AllNew(p) ==
    /\ p.abs
    /\ Len(p.comps) >= 2
    /\ \A i \in 1..Len(p.comps) : p.comps[i] # ".."
    /\ find_name(chains[PK2_ROOT_BLOCK], p.comps[1]) = -1

\* C12: create_file(/d1/.../dn/f) with none of the directories existing
\* returns Ok; afterwards open_directory of every prefix /d1/.../di succeeds
\* and yields exactly the next component, open_file of the path succeeds and
\* the file has size 0 and reads as zero bytes.
C12_CreatesDirectories ==
    \A p \in Paths :
        (opened /\ AllNew(p)) =>
            LET r == create_file(chains, disk, p, << >>)
            IN  /\ r.res = "Ok"
                /\ \A i \in 1..(Len(p.comps) - 1) :
                       LET d == open_directory(
                                    r.chains, AbsPath(SubSeq(p.comps, 1, i)))
                       IN  /\ d.res = "Ok"
                           /\ directory_entries(r.chains, d)
                                  = << p.comps[i + 1] >>
                /\ ReadBack(r.chains, r.disk, p)
                       = [res |-> "Ok", bytes |-> << >>, size |-> 0]

\* The same after the call: /d/e/a was created first in a fresh archive.
C12_Witness ==
    /\ nops = 1
    /\ nfill = 0
    /\ last = Op("create_file", AbsPath(<< "d", "e", "a" >>), << >>, "", "Ok")
    /\ directory_entries(chains, open_directory(chains, AbsPath(<< >>)))
           = << "d" >>
    /\ directory_entries(chains, open_directory(chains, AbsPath(<< "d" >>)))
           = << "e" >>
    /\ directory_entries(chains,
                         open_directory(chains, AbsPath(<< "d", "e" >>)))
           = << "a" >>
    /\ ReadBack(chains, disk, last.path)
           = [res |-> "Ok", bytes |-> << >>, size |-> 0]

\* The path "/../a": its ".." leaves the root.
EscapePath == AbsPath(<< "..", "a" >>)

\* C13: a path whose ".." escapes the root yields InvalidPath from
\* open_file, open_directory, delete_file and create_file.
C13_EscapeIsInvalidPath ==
    opened =>
        /\ open_file(chains, EscapePath).res = "InvalidPath"
        /\ open_directory(chains, EscapePath).res = "InvalidPath"
        /\ delete_file(chains, disk, EscapePath).res = "InvalidPath"
        /\ create_file(chains, disk, EscapePath, << >>).res = "InvalidPath"

\* Paths without the leading "/".
RelPaths ==
    { RelPath(<< >>), RelPath(<< "a" >>), RelPath(<< "d", "a" >>),
      RelPath(<< "..", "a" >>), RelPath(<< FillNames[1] >>) }

\* C14: open_file, open_file_mut, open_directory, delete_file and create_file
\* return InvalidPath for every path without the leading "/", and
\* delete_file and create_file then leave the chain map and the host file as
\* they were.
C14_RelativeIsInvalidPath ==
    /\ opened =>
           \A p \in RelPaths :
               /\ open_file(chains, p).res = "InvalidPath"
               /\ open_file_mut(chains, p).res = "InvalidPath"
               /\ open_directory(chains, p).res = "InvalidPath"
               /\ delete_file(chains, disk, p)
                      = [res |-> "InvalidPath", chains |-> chains,
                         disk |-> disk]
               /\ \A b \in Payloads :
                      create_file(chains, disk, p, b)
                          = [res |-> "InvalidPath", chains |-> chains,
                             disk |-> disk]
    /\ (last.op \in {"create_file", "delete_file"} /\ ~last.path.abs)
           => last.res = "InvalidPath"

C14_Witness ==
    /\ last.op = "create_file"
    /\ ~last.path.abs
    /\ last.res = "InvalidPath"
    /\ nfill = PK2_FILE_BLOCK_ENTRY_COUNT
    /\ open_file(chains, AbsPath(last.path.comps)).res = "NotFound"

\* C15: on every open archive open_directory("/") returns the root bound to
\* (root chain index, 0), whose entry is the "." of the root chain; path
\* resolution gives the empty path the outcome without an entry, not an
\* error.
C15_RootDirectory ==
    opened =>
        /\ resolve_path_to_entry_and_parent(chains, PK2_ROOT_BLOCK, << >>).res
               = "None"
        /\ open_directory(chains, AbsPath(<< >>))
               = [res |-> "Ok", chain |-> PK2_ROOT_BLOCK, idx |-> 0]
        /\ get(chains[PK2_ROOT_BLOCK], 0).pos = PK2_ROOT_BLOCK
        /\ directory_entries(chains, open_directory(chains, AbsPath(<< >>)))
               = visible_names(chains[PK2_ROOT_BLOCK], 0)

C15_Witness ==
    /\ last.op = "open"
    /\ last.res = "Ok"
    /\ nfill = PK2_FILE_BLOCK_ENTRY_COUNT
    /\ Cardinality(DOMAIN chains) >= 2
    /\ open_directory(chains, AbsPath(<< >>)).res = "Ok"

\* Whether the entry path p resolves to satisfies the variant test.
ResolvesToDir(p) ==
    LET r == root_resolve_path_to_entry_and_parent(chains, p)
    IN  r.res = "Ok" /\ is_dir(get(chains[r.chain], r.idx))

ResolvesToFile(p) ==
    LET r == root_resolve_path_to_entry_and_parent(chains, p)
    IN  r.res = "Ok" /\ is_file(get(chains[r.chain], r.idx))

\* Whether a proper prefix of p resolves to a File entry.
FileOnTheWay(p) ==
    /\ p.abs
    /\ \E i \in 1..(Len(p.comps) - 1) :
           ResolvesToFile(AbsPath(SubSeq(p.comps, 1, i)))

\* C16: open_file and delete_file on a path that resolves to a Directory
\* return ExpectedFile; open_directory on a path that resolves to a File
\* returns ExpectedDirectory; each of them on a path with a File as an
\* intermediate component returns ExpectedDirectory; a failed delete_file
\* changes nothing.
C16_VariantMismatch ==
    opened =>
        \A p \in Paths \cup DeleteFillPaths :
            /\ ResolvesToDir(p) =>
                   /\ open_file(chains, p).res = "ExpectedFile"
                   /\ delete_file(chains, disk, p)
                          = [res |-> "ExpectedFile", chains |-> chains,
                             disk |-> disk]
            /\ ResolvesToFile(p) =>
                   open_directory(chains, p).res = "ExpectedDirectory"
            /\ FileOnTheWay(p) =>
                   /\ open_file(chains, p).res = "ExpectedDirectory"
                   /\ open_directory(chains, p).res = "ExpectedDirectory"
                   /\ delete_file(chains, disk, p)
                          = [res |-> "ExpectedDirectory", chains |-> chains,
                             disk |-> disk]

C16_Witness ==
    /\ last.op = "delete_file"
    /\ last.res = "ExpectedFile"
    /\ ResolvesToDir(last.path)
    /\ \E p \in Paths : ResolvesToFile(p)

\* C17: create_file under a name of more than 81 bytes in EUC-KR is rejected,
\* and after a re-open no file is found under the first 81 bytes of the name.
C17_LongNameRejected ==
    opened =>
        LET r == create_file(chains, disk, AbsPath(<< LongName >>), << 1 >>)
        IN  /\ r.res # "Ok"
            /\ open_file(open_in_impl(r.disk, made_key).chains,
                         AbsPath(<< LongNameCut >>)).res # "Ok"

\* The live File entries of the chain map, as << chain index, entry index >>.
FileEntries ==
    UNION { { << c, i >> : i \in { k \in LiveIdx(chains[c]) :
                                       is_file(get(chains[c], k)) } } :
            c \in DOMAIN chains }

FileAt(l) == get(chains[l[1]], l[2])

\* C18 as claimed: every live File entry has pos_data >= 256, also one just
\* created and not yet written, and the regions [pos_data, pos_data + size)
\* of two live File entries do not overlap.
C18_DataAfterHeader ==
    /\ \A l \in FileEntries : FileAt(l).pos >= PK2_ROOT_BLOCK
    /\ \A l, m \in FileEntries :
           l # m => \/ FileAt(l).pos + FileAt(l).size <= FileAt(m).pos
                    \/ FileAt(m).pos + FileAt(m).size <= FileAt(l).pos

\* C18 as amended: a live File entry with no payload written has size 0 and
\* pos_data 0; one with size > 0 has its region after the header and inside
\* the host file, and two such regions do not overlap.
C18_WrittenDataAfterHeader ==
    /\ \A l \in FileEntries :
           IF FileAt(l).size = 0 THEN FileAt(l).pos = 0
           ELSE /\ FileAt(l).pos >= PK2_ROOT_BLOCK
                /\ FileAt(l).pos + FileAt(l).size <= file_len(disk)
    /\ \A l, m \in FileEntries :
           (l # m /\ FileAt(l).size > 0 /\ FileAt(m).size > 0)
               => \/ FileAt(l).pos + FileAt(l).size <= FileAt(m).pos
                  \/ FileAt(m).pos + FileAt(m).size <= FileAt(l).pos

C18_Witness ==
    /\ last.op = "create_file"
    /\ last.res = "Ok"
    /\ \E l, m \in FileEntries :
           FileAt(l).size = 0 /\ FileAt(m).size > 0 /\ l[1] # m[1]
    /\ Len(chains[PK2_ROOT_BLOCK]) = 2

\* The encoded entry at index i of chain in the host file d.
DiskEntry(d, chain, i) ==
    d.blocks[chain[(i \div PK2_FILE_BLOCK_ENTRY_COUNT) + 1].offset]
            [(i % PK2_FILE_BLOCK_ENTRY_COUNT) + 1]

\* Whether r, the result of delete_file on the File entry f of next_block nb,
\* changed that entry alone, to Empty with nb, in the chain map and in the
\* host file.
ClearedOneEntry(r, f, nb) ==
    /\ DOMAIN r.chains = DOMAIN chains
    /\ \A c \in DOMAIN chains :
           /\ Len(r.chains[c]) = Len(chains[c])
           /\ \A i \in 0..(num_entries(chains[c]) - 1) :
                  (c # f.chain \/ i # f.idx)
                      => get(r.chains[c], i) = get(chains[c], i)
    /\ is_empty(get(r.chains[f.chain], f.idx))
    /\ get(r.chains[f.chain], f.idx).next_block = nb
    /\ file_len(r.disk) = file_len(disk)
    /\ r.disk.header = disk.header
    /\ r.disk.data = disk.data
    /\ DOMAIN r.disk.blocks = DOMAIN disk.blocks
    /\ \A o \in DOMAIN disk.blocks, k \in EntryIdx :
           (o + (k - 1) * PK2_FILE_ENTRY_SIZE
                # file_offset_for_entry(chains[f.chain], f.idx))
               => r.disk.blocks[o][k] = disk.blocks[o][k]
    /\ DiskEntry(r.disk, chains[f.chain], f.idx).ty = 0
    /\ DiskEntry(r.disk, chains[f.chain], f.idx).b120 = nb

\* Whether r2, the result of a create_file after the delete, kept nb as the
\* next_block of the slot f if it put its entry there.
ReusedSlotKeepsLink(r2, f, nb) ==
    (r2.res = "Ok" /\ ~is_empty(get(r2.chains[f.chain], f.idx)))
        => /\ get(r2.chains[f.chain], f.idx).next_block = nb
           /\ from_reader(DiskEntry(r2.disk, chains[f.chain], f.idx))
                  .next_block = nb

\* C19: delete_file(p) returning Ok changes exactly one entry, the resolved
\* File entry, to Empty with the next_block it had, in the chain map and in
\* the 128 bytes at its file offset; the other entries, the set of chains
\* and the host-file length stay; a create_file that then reuses the slot
\* keeps its next_block.
C19_DeleteFrame ==
    opened =>
        \A p \in Paths \cup DeleteFillPaths :
            LET f == open_file(chains, p)
                r == delete_file(chains, disk, p)
            IN  r.res = "Ok" =>
                    /\ f.res = "Ok"
                    /\ ClearedOneEntry(
                           r, f, get(chains[f.chain], f.idx).next_block)
                    /\ \A q \in {p, AbsPath(<< "a" >>)} :
                           ReusedSlotKeepsLink(
                               create_file(r.chains, r.disk, q, << 1 >>), f,
                               get(chains[f.chain], f.idx).next_block)

\* The link-carrying entry 19 of the root block was deleted.
C19_Witness ==
    /\ last.op = "delete_file"
    /\ last.res = "Ok"
    /\ last.path = FillPath(PK2_FILE_BLOCK_ENTRY_COUNT - 1)
    /\ Len(chains[PK2_ROOT_BLOCK]) = 2
    /\ is_empty(get(chains[PK2_ROOT_BLOCK], PK2_FILE_BLOCK_ENTRY_COUNT - 1))
    /\ get(chains[PK2_ROOT_BLOCK], PK2_FILE_BLOCK_ENTRY_COUNT - 1).next_block
           = chains[PK2_ROOT_BLOCK][2].offset
    /\ DiskEntry(disk, chains[PK2_ROOT_BLOCK],
                 PK2_FILE_BLOCK_ENTRY_COUNT - 1).b120
           = chains[PK2_ROOT_BLOCK][2].offset

\* The paths validate_dir_path_until is looked at with: the nested paths,
\* paths through a File, and paths with "..".
ValidatePaths ==
    NestedPaths
        \cup { AbsPath(<< "d", "a", "e" >>), AbsPath(<< "d", "e", "a", "g" >>),
               AbsPath(<< "d", "..", "a" >>), AbsPath(<< "..", "a" >>),
               AbsPath(<< "d", "e", "..", "g", "a" >>),
               AbsPath(<< "d", "g", "..", "a" >>), AbsPath(<< "d", "e" >>) }

\* The length of the longest prefix of comps that resolves from the root
\* through directories, and the chain it resolves to.
LongestPrefix(comps) ==
    SetMax({ k \in 0..Len(comps) :
                resolve_path_to_block_chain_index_at(
                    chains, PK2_ROOT_BLOCK, SubSeq(comps, 1, k)).res = "Ok" })

PrefixChain(comps, k) ==
    resolve_path_to_block_chain_index_at(
        chains, PK2_ROOT_BLOCK, SubSeq(comps, 1, k)).chain

\* No chain of cs has two live entries of the same name.
NoSecondEntry(cs) ==
    \A c \in DOMAIN cs :
        \A i, j \in 0..(num_entries(cs[c]) - 1) :
            (i # j /\ ~is_empty(get(cs[c], i)) /\ ~is_empty(get(cs[c], j)))
                => get(cs[c], i).name # get(cs[c], j).name

\* What validate_dir_path_until is to return for comps whose longest
\* existing prefix has length k and chain c.
ValidateExpected(comps, k, c) ==
    IF k < Len(comps)
       /\ find_block_chain_index_of(chains[c], comps[k + 1]).res
              = "ExpectedDirectory"
    THEN "ExpectedDirectory"
    ELSE IF k < Len(comps) /\ comps[k + 1] = ".." THEN "InvalidPath"
    ELSE "Ok"

\* C20: a successful validate_dir_path_until returns the chain of the longest
\* prefix of the path that exists as directories and exactly the remaining
\* components; it fails only when the next component is a File entry
\* (ExpectedDirectory) or a ".." without an entry (InvalidPath). create_file
\* on /d/a, /d/e/a, /d/e/g/a, /d/e/g/h/a adds one chain per missing
\* directory and never a second entry of a name.
C20_ValidateNested ==
    /\ \A p \in ValidatePaths :
           LET k == LongestPrefix(p.comps)
               v == validate_dir_path_until(chains, PK2_ROOT_BLOCK, p.comps)
               x == ValidateExpected(p.comps, k, PrefixChain(p.comps, k))
           IN  /\ v.res = x
               /\ x = "Ok" =>
                      /\ v.chain = PrefixChain(p.comps, k)
                      /\ v.rest = SubSeq(p.comps, k + 1, Len(p.comps))
    /\ \A p \in NestedPaths :
           LET k == LongestPrefix(p.comps)
               r == create_file(chains, disk, p, << >>)
           IN  /\ (r.res = "Ok")
                      = (ValidateExpected(p.comps, k, PrefixChain(p.comps, k))
                             = "Ok")
               /\ r.res = "Ok" =>
                      /\ Cardinality(DOMAIN r.chains)
                             = Cardinality(DOMAIN chains)
                                   + (Len(p.comps) - k - 1)
                      /\ NoSecondEntry(r.chains)
    /\ NoSecondEntry(chains)

\* /d/a, /d/e/a, /d/e/g/a and /d/e/g/h/a were created in this order.
C20_Witness ==
    /\ nops = 4
    /\ last = Op("create_file", AbsPath(<< "d", "e", "g", "h", "a" >>),
                 << >>, "", "Ok")
    /\ Cardinality(DOMAIN chains) = 5
    /\ \A p \in NestedPaths : open_file(chains, p).res = "Ok"

\* The Directory entries of the index on the host file d, as (block, slot).
DiskDirectories(d) ==
    { l \in (DOMAIN d.blocks) \X EntryIdx : d.blocks[l[1]][l[2]].ty = 1 }

\* C21: between any two writes of create_file, every Directory entry of the
\* index on the host file points at an offset where a block has been
\* written; the first block of a new chain is on the host file, with its
\* "." and "..", when the parent entry that points at it is rewritten.
C21_BlockBeforeEntry ==
    /\ \A l \in DiskDirectories(disk) :
           disk.blocks[l[1]][l[2]].pos \in DOMAIN disk.blocks
    /\ (wr.pending # << >> /\ Head(wr.pending).op = "entry"
            /\ is_dir(Head(wr.pending).val))
           => /\ Head(wr.pending).val.pos \in DOMAIN disk.blocks
              /\ disk.blocks[Head(wr.pending).val.pos][1].ty = 1
              /\ disk.blocks[Head(wr.pending).val.pos][1].name
                     = EncodeName(".")
              /\ disk.blocks[Head(wr.pending).val.pos][2].name
                     = EncodeName("..")

\* The first block of a new chain is on the host file and no entry points
\* at it yet: the next write rewrites the parent entry.
C21_Witness ==
    /\ wr.pending # << >>
    /\ Head(wr.pending).op = "entry"
    /\ is_dir(Head(wr.pending).val)
    /\ Head(wr.pending).val.pos \in DOMAIN disk.blocks
    /\ Head(wr.pending).val.pos \notin DOMAIN chains
    /\ \A l \in DiskDirectories(disk) :
           disk.blocks[l[1]][l[2]].pos = Head(wr.pending).val.pos
               => l[1] = Head(wr.pending).val.pos

\* The indices of old whose entry is Empty in old and live in new.
Taken(old, new) ==
    { i \in 0..(num_entries(old) - 1) :
          is_empty(get(old, i)) /\ ~is_empty(get(new, i)) }

\* new is old after entries were placed in it: each at the first Empty
\* slot there was, no live entry touched but for its link, and a block
\* appended only once no entry of old was Empty any more.
PlacedAtFirstEmpty(old, new) ==
    /\ Len(new) \in { Len(old), Len(old) + 1 }
    /\ \A i \in Taken(old, new) :
           \A j \in 0..(i - 1) : is_empty(get(old, j)) => j \in Taken(old, new)
    /\ \A i \in 0..(num_entries(old) - 1) :
           ~is_empty(get(old, i))
               => [get(new, i) EXCEPT !.next_block = 0]
                      = [get(old, i) EXCEPT !.next_block = 0]
    /\ Len(new) > Len(old) =>
           /\ \A i \in 0..(num_entries(old) - 1) : ~is_empty(get(new, i))
           /\ ~is_empty(get(new, num_entries(old)))
           /\ \A i \in (num_entries(old) + 1)..(num_entries(new) - 1) :
                  ~is_empty(get(new, i)) => ~is_empty(get(new, i - 1))

\* A chain made by the call: its live entries are its first ones.
FilledFromFront(new) ==
    /\ Len(new) = 1
    /\ \A i \in 1..(num_entries(new) - 1) :
           ~is_empty(get(new, i)) => ~is_empty(get(new, i - 1))

\* C22: create_file places every new entry at the first Empty slot of its
\* chain, so the slot delete_file emptied is taken by the next creation in
\* that directory, and a chain gets a block only when none of its entries is
\* Empty.
C22_FirstEmptySlot ==
    opened =>
        \A p \in CreatePaths \cup DeleteFillPaths :
            LET r == create_file(chains, disk, p, << >>)
            IN  r.res = "Ok" =>
                    /\ DOMAIN chains \subseteq DOMAIN r.chains
                    /\ \A c \in DOMAIN chains :
                           PlacedAtFirstEmpty(chains[c], r.chains[c])
                    /\ \A c \in DOMAIN r.chains \ DOMAIN chains :
                           FilledFromFront(r.chains[c])
                    /\ \E c \in DOMAIN r.chains :
                           \E i \in 0..(num_entries(r.chains[c]) - 1) :
                               /\ get(r.chains[c], i).name = Last(p.comps)
                               /\ is_file(get(r.chains[c], i))
                               /\ c \in DOMAIN chains
                                      => i \in Taken(chains[c], r.chains[c])
                                             \cup (num_entries(chains[c])
                                                      ..(num_entries(chains[c])
                                                             + 1))

\* /f10 was deleted from a full root block and the next create_file took its
\* slot; the chain still has one block.
C22_Witness ==
    /\ nfill = 19
    /\ nops = 2
    /\ last.op = "create_file"
    /\ last.res = "Ok"
    /\ Len(chains[PK2_ROOT_BLOCK]) = 1
    /\ is_file(get(chains[PK2_ROOT_BLOCK], 10))
    /\ get(chains[PK2_ROOT_BLOCK], 10).name = Last(last.path.comps)
    /\ get(chains[PK2_ROOT_BLOCK], 10).name # FillNames[10]

\* The u64 at bytes 118..126 of an encoded entry, where a Directory or File
\* entry keeps its next_block.
LinkBytes(w) == w.b118 + 65536 * w.b120

\* C23: every entry of the chain map, Empty ones included, encodes with its
\* next_block in bytes 118..126, and so do the entries on the host file.
C23_EmptyLinkPosition ==
    \A c \in DOMAIN chains :
        \A i \in 0..(num_entries(chains[c]) - 1) :
            /\ LinkBytes(to_writer(get(chains[c], i)))
                   = get(chains[c], i).next_block
            /\ (opened /\ c \in DOMAIN disk.blocks)
                   => LinkBytes(DiskEntry(disk, chains[c], i))
                          = get(chains[c], i).next_block

\* C24: after create with a key, the archive is encrypted exactly if the
\* key is not empty, the host file is the 256-byte header and one root block
\* (2816 bytes), and the chain map is the root chain alone, at 256, with "."
\* pointing at 256 in entry 0 and every other entry Empty.
C24_CreatedArchive ==
    last.op = "create" =>
        /\ last.res = "Ok"
        /\ opened
        /\ disk.header.encrypted = (made_key # "")
        /\ (blowfish # NoBlowfish) = (made_key # "")
        /\ disk.header.encrypted => disk.header.verify = KeyCheck(made_key)
        /\ disk.header.signature = PK2_SIGNATURE
        /\ disk.len = PK2_ROOT_BLOCK + PK2_FILE_BLOCK_SIZE
        /\ disk.len = 2816
        /\ DOMAIN disk.blocks = { PK2_ROOT_BLOCK }
        /\ DOMAIN disk.data = {}
        /\ DOMAIN chains = { PK2_ROOT_BLOCK }
        /\ PK2_ROOT_BLOCK = 256
        /\ Len(chains[PK2_ROOT_BLOCK]) = 1
        /\ chain_index(chains[PK2_ROOT_BLOCK]) = PK2_ROOT_BLOCK
        /\ get(chains[PK2_ROOT_BLOCK], 0)
               = new_directory(".", PK2_ROOT_BLOCK, 0)
        /\ \A i \in 1..(PK2_FILE_BLOCK_ENTRY_COUNT - 1) :
               get(chains[PK2_ROOT_BLOCK], i) = new_empty(0)

\* An archive created with the empty key, and nothing done to it yet.
C24_Witness ==
    /\ last = Op("create", NoPath, << >>, "", "Ok")
    /\ made_key = ""
    /\ ~disk.header.encrypted
    /\ nfill = 0

\* The chain map cs is closed: every key is the chain index of its chain and
\* every Directory entry points at a key.
Closed(cs) ==
    \A k \in DOMAIN cs :
        /\ chain_index(cs[k]) = k
        /\ \A i \in 0..(num_entries(cs[k]) - 1) :
               is_dir(get(cs[k], i)) => get(cs[k], i).pos \in DOMAIN cs

\* The call that returned r did not fail with InvalidChainIndex and left a
\* closed chain map.
ClosedAfter(r) == r.res # "InvalidChainIndex" /\ Closed(r.chains)

\* C25: the chain map of an open archive is closed under directory links, so
\* no path resolves to InvalidChainIndex, in open_file, open_directory,
\* delete_file or create_file.
C25_ChainMapClosed ==
    opened =>
        /\ Closed(chains)
        /\ \A p \in Paths \cup DeleteFillPaths :
               /\ open_file(chains, p).res # "InvalidChainIndex"
               /\ open_directory(chains, p).res # "InvalidChainIndex"
               /\ ClosedAfter(delete_file(chains, disk, p))
        /\ \A p \in CreatePaths : ClosedAfter(create_file(chains, disk, p, << >>))

\* /d/e/a was created and deleted: three chains, two of them linked from
\* Directory entries of another chain.
C25_Witness ==
    /\ opened
    /\ last = Op("delete_file", AbsPath(<< "d", "e", "a" >>), << >>, "", "Ok")
    /\ Cardinality(DOMAIN chains) = 3
    /\ \E k \in DOMAIN chains \ { PK2_ROOT_BLOCK } :
           \E i \in 0..(num_entries(chains[PK2_ROOT_BLOCK]) - 1) :
               /\ is_dir(get(chains[PK2_ROOT_BLOCK], i))
               /\ get(chains[PK2_ROOT_BLOCK], i).pos = k

\* Paths create_file may fail on: those of the operations, and paths that
\* go above the root after components that may not exist yet.
ErrorPaths ==
    Paths \cup { AbsPath(<< "d", "..", "..", "a" >>),
                 AbsPath(<< "d", "e", "..", "..", "..", "a" >>),
                 AbsPath(<< "d", ".." >>) }

PathErrors ==
    { "InvalidPath", "ExpectedDirectory", "AlreadyExists", "NonUnicodePath" }

\* C26: a create_file that fails with a path error has created nothing: the
\* chain map and the host file are as they were before the call.
C26_AllOrNothing ==
    opened =>
        \A p \in ErrorPaths :
            LET r == create_file(chains, disk, p, << >>)
            IN  r.res \in PathErrors => r.chains = chains /\ r.disk = disk

====
